---- MODULE Spec2Model ----
(***************************************************************************)
(* Geez Bingo clients: the stand-alone Telegram bot (src/unnamed/part_000, *)
(* prefix A_ where a name is shared), the session-based Telegram bot       *)
(* (src/telegram-bot/src/bot.js, prefix B_) and the React game room        *)
(* (src/geez-bingo-frontend/src/context/SocketContext.js, prefix W_), and   *)
(* the card model with its win detector (prefix C_), which the clients     *)
(* only consume.                                                           *)
(*                                                                         *)
(* Every handler is one action.  A handler's awaited calls (backend        *)
(* requests, Telegram sends) get their outcomes from the action's inputs;  *)
(* what the handler did is left in the variables op / ev / out / reqs /    *)
(* uncaught / logged, which always describe the most recent handler run.   *)
(* The recursive /play handler of part_000 is the one handler split at its *)
(* awaits, because it need not terminate.                                  *)
(***************************************************************************)
EXTENDS Integers, Sequences, FiniteSets, TLC

VARIABLES
    op,           \* the handler that ran last: [client, name, chat]
    ev,           \* the event / input payload that handler was given
    out,          \* messages (bot) or toasts (web) the handler tried to show
    reqs,         \* backend requests / socket emits the handler made
    uncaught,     \* TRUE iff the handler's promise rejected (nobody catches it)
    logged,       \* TRUE iff the handler wrote to console.error / logger.error
    playPc,       \* part_000 handlePlayCommand: "idle" | "get" | "create"
    playChat,     \* chat the running handlePlayCommand serves
    playCreates,  \* create-game requests made by the running handlePlayCommand
    userSessions, \* bot.js: chatId -> userId of the session (NoSession if none)
    isConnected,  \* web: SocketProvider isConnected
    gameState,    \* web: GameRoom gameState (NoGameState before the first event)
    myCards,      \* web: GameRoom myCards
    winner,       \* web: GameRoom winner (NoWinner when null)
    winnerGames,  \* history: game ids for which the web client processed a winner event
    room,         \* web: the gameId the GameRoom is mounted for (NoRoom when unmounted)
    joined,       \* history: game ids with a join-game message sent and no leave since
    selectedCard, \* web: GameRoom selectedCard (NoCard when null)
    listeners,    \* web: the listeners attached to the socket: [event, owner]
    card,         \* card model: the card under construction and marking (NoCard before)
    win           \* card model: what the win detector reported for card

logVars == <<op, ev, out, reqs, uncaught, logged>>
botVars == <<playPc, playChat, playCreates, userSessions>>
webVars == <<isConnected, gameState, myCards, winner, winnerGames,
             room, joined, selectedCard, listeners>>
roomVars == <<room, joined, selectedCard, listeners>>
cardVars == <<card, win>>
vars == <<op, ev, out, reqs, uncaught, logged, playPc, playChat, playCreates,
          userSessions, isConnected, gameState, myCards, winner, winnerGames,
          room, joined, selectedCard, listeners, card, win>>

-----------------------------------------------------------------------------
(* Bounds of the model *)

\* chats 1..MaxChat talk to the bots
MaxChat == 2
\* Telegram sends whose outcome one handler run can be given
MaxSends == 2
\* create-game requests after which the model stops following the /play recursion
MaxCreates == 3
\* longest calledNumbers sequence a gameState event carries
MaxCalls == 2

Chats == 1..MaxChat

\* ids the backend hands out at registration (bot.js, web)
BackendUserIds == {"u1", "u2"}
NoSession == "none"

\* game ids; "7e" starts with a digit, as the ids of a uuid-keyed backend can
GameIds == {"g1", "7e"}
RoomGame == "g1"

Statuses == {"waiting", "active", "completed"}

\* reasons the backend gives when it rejects buy-card
DomainErrors == {"Insufficient balance", "Card already sold",
                 "Game is not waiting", "No cards available"}

\* what an HTTP call made with axios can come to:
\*   ok         2xx, body.success true
\*   rejected   2xx, body.success false, body.error set
\*   http_error non-2xx status with an error body (axios rejects the promise)
\*   transport  no response at all: unreachable, timeout (axios rejects)
HttpOutcomes == {"ok", "rejected", "http_error", "transport"}
Throws(outcome) == outcome \in {"http_error", "transport"}

\* card numbers, pages and amounts are integers; three values stand for the
\* JavaScript values that are not numbers
Null == 0
NaN == -1
RandomStr == -2

\* JSON.stringify of a number: NaN is written as null
JsonNumber(n) == IF n = NaN THEN Null ELSE n

\* parseInt of a callback-data token
parseInt(s) ==
    CASE s = "1" -> 1
      [] s = "2" -> 2
      [] s = "3" -> 3
      [] s = "10" -> 10
      [] s = "400" -> 400
      [] s = "7e" -> 7
      [] OTHER -> NaN

-----------------------------------------------------------------------------
(* Records *)

Msg(kind, text, kb, status) ==
    [kind |-> kind, text |-> text, kb |-> kb, status |-> status]

Req(api, userId, gameId, cardNumber, result, error) ==
    [api |-> api, userId |-> userId, gameId |-> gameId,
     cardNumber |-> cardNumber, result |-> result, error |-> error]

\* the payload a handler was given; the fields a handler does not get stay as here
NoEvent == [type |-> "", gameId |-> "", userId |-> "", isWinner |-> FALSE,
            number |-> 0, currentCalls |-> 0, status |-> "", calledNumbers |-> <<>>,
            data |-> <<>>, text |-> "", words |-> <<>>, handlers |-> <<>>,
            cardsSold |-> 0, players |-> <<>>]

\* an inline-keyboard button: its caption and callback_data.split('_'); a url or
\* web_app button has no callback_data (<<>>)
Btn(text, data) == [text |-> text, data |-> data]

Op(client, name, chat) == [client |-> client, name |-> name, chat |-> chat]

\* a handler run in progress: what it has sent and requested, whether an
\* exception is propagating, whether it logged an error
NewRun == [out |-> <<>>, reqs |-> <<>>, thrown |-> FALSE, logged |-> FALSE]

\* await this.bot.sendMessage(chatId, ...): the i-th send of the run succeeds
\* iff tg[i]; a failed send rejects, i.e. throws at the await
Send(run, chat, m, tg) ==
    IF run.thrown THEN run
    ELSE LET i == Len(run.out) + 1
             ok == IF i \in DOMAIN tg THEN tg[i] ELSE TRUE
         IN [run EXCEPT !.out = Append(@, [to |-> chat, kind |-> m.kind,
                                           text |-> m.text, kb |-> m.kb,
                                           status |-> m.status, ok |-> ok]),
                        !.thrown = ~ok]

\* await axios.get/post(...): rejects on a non-2xx status or no response
Call(run, r) ==
    IF run.thrown THEN run
    ELSE [run EXCEPT !.reqs = Append(@, r), !.thrown = Throws(r.result)]

\* entering a catch block: the exception is handled, console.error runs
Caught(run) == [run EXCEPT !.thrown = FALSE, !.logged = TRUE]

\* throwing a TypeError (call of a method the class does not define)
Throw(run) == IF run.thrown THEN run ELSE [run EXCEPT !.thrown = TRUE]

TgOutcomes == [1..MaxSends -> BOOLEAN]

\* the outcomes for a handler that sends at most n times
TgFor(n) == {tg \in TgOutcomes : \A i \in DOMAIN tg : i > n => tg[i]}

\* the handler run becomes the log
Finish(client, name, chat, event, run) ==
    /\ op' = Op(client, name, chat)
    /\ ev' = event
    /\ out' = run.out
    /\ reqs' = run.reqs
    /\ uncaught' = run.thrown
    /\ logged' = run.logged

-----------------------------------------------------------------------------
(* src/unnamed/part_000 *)

\* getUserId: `telegram_${chatId}`
getUserId(chatId) == "telegram_" \o ToString(chatId)

\* buyCard(chatId, gameId, cardNumber)
buyCard(run, chatId, gameId, cardNumber, outcome, error, tg) ==
    LET body == Call(run, Req("buy-card", getUserId(chatId), gameId,
                              JsonNumber(IF cardNumber = RandomStr THEN Null
                                                                   ELSE cardNumber),
                              outcome, error))
        try == IF outcome = "ok"
               THEN Send(body, chatId,
                         Msg("purchased", "",
                             {Btn("Buy Another Card", <<"select", "card", "page", gameId, "1">>),
                              Btn("View Game", <<"join", "game", gameId>>)}, ""), tg)
               ELSE Send(body, chatId, Msg("backend_error", error, {}, ""), tg)
    IN IF try.thrown
       THEN Send(Caught(try), chatId, Msg("buy_error", "", {}, ""), tg)
       ELSE try

\* claimBingo(chatId)
claimBingo(run, chatId, outcome, tg) ==
    LET body == Call(run, Req("claim-bingo", getUserId(chatId), "", Null, outcome, ""))
        try == IF outcome = "ok"
               THEN Send(body, chatId, Msg("claim_verifying", "", {}, ""), tg)
               ELSE Send(body, chatId, Msg("claim_none", "", {}, ""), tg)
    IN IF try.thrown
       THEN Send(Caught(try), chatId, Msg("claim_error", "", {}, ""), tg)
       ELSE try

\* a handler of the shape  try { userId; axios.get; format; send } catch { log; send }
\* formatting reads fields of the body (balance.available.toFixed, cards.length, ...)
\* and throws a TypeError when a 2xx body lacks them ("rejected")
ReadAndShow(run, chatId, api, outcome, okMsg, errKind, tg) ==
    LET body == Call(run, Req(api, getUserId(chatId), "", Null, outcome, ""))
        try == Send(IF outcome = "rejected" THEN Throw(body) ELSE body, chatId, okMsg, tg)
    IN IF try.thrown
       THEN Send(Caught(try), chatId, Msg(errKind, "", {}, ""), tg)
       ELSE try

\* showBalance(chatId)
A_showBalance(run, chatId, outcome, tg) ==
    ReadAndShow(run, chatId, "get-balance", outcome,
                Msg("balance", "",
                    {Btn("Deposit", <<"deposit", "menu">>), Btn("Withdraw", <<"withdraw", "menu">>),
                     Btn("Transfer", <<"transfer", "menu">>),
                     Btn("History", <<"transaction", "history">>),
                     Btn("Main Menu", <<"main", "menu">>)}, ""),
                "balance_error", tg)

\* showUserStats(chatId)
showUserStats(run, chatId, outcome, tg) ==
    ReadAndShow(run, chatId, "get-user-stats", outcome,
                Msg("stats", "",
                    {Btn("Leaderboard", <<"view", "leaderboard">>),
                     Btn("View Charts", <<"view", "web", "app?tab=stats">>),
                     Btn("Main Menu", <<"main", "menu">>)}, ""),
                "stats_error", tg)

\* showInviteOptions(chatId)
showInviteOptions(run, chatId, outcome, tg) ==
    ReadAndShow(run, chatId, "get-referral-info", outcome,
                Msg("invite", "",
                    {Btn("Share Invite Link", <<>>), Btn("Copy Code", <<"copy", "code", "REF">>),
                     Btn("My Referrals", <<"view", "referrals">>),
                     Btn("Main Menu", <<"main", "menu">>)}, ""),
                "invite_error", tg)

\* showUserCards(chatId); hasCards: the body lists at least one card
showUserCards(run, chatId, outcome, hasCards, tg) ==
    LET body == Call(run, Req("get-user-cards", getUserId(chatId), "", Null, outcome, ""))
        try == IF ~hasCards \/ outcome = "rejected"
               THEN Send(body, chatId, Msg("no_cards", "", {}, ""), tg)
               ELSE Send(body, chatId,
                         Msg("cards", "",
                             {Btn("View Active Game", <<"view", "active", "game">>),
                              Btn("Open Web App", <<"view", "web", "app">>),
                              Btn("Main Menu", <<"main", "menu">>)}, ""), tg)
    IN IF try.thrown
       THEN Send(Caught(try), chatId, Msg("cards_error", "", {}, ""), tg)
       ELSE try

\* processDeposit(chatId, amount): amount is the text after 'deposit_'
processDeposit(run, chatId, amount, outcome, tg) ==
    LET body == Call(run, Req("deposit", getUserId(chatId), "",
                              JsonNumber(IF amount = "custom" THEN Null ELSE parseInt(amount)),
                              outcome, ""))
        try == Send(body, chatId,
                    Msg("deposit", amount,
                        {Btn("Copy Address", <<"copy", "address">>),
                         Btn("I've Deposited", <<"check", "deposit">>),
                         Btn("Back to Wallet", <<"view", "balance">>)}, ""), tg)
    IN IF try.thrown
       THEN Send(Caught(try), chatId, Msg("deposit_error", "", {}, ""), tg)
       ELSE try

\* the handlers without a try block: a failed send propagates to the caller
showMainMenu(run, chatId, tg) ==
    Send(run, chatId, Msg("menu", "", {}, ""), tg)

showDepositOptions(run, chatId, tg) ==
    Send(run, chatId,
         Msg("deposit_options", "",
             {Btn("$10", <<"deposit", "10">>), Btn("$25", <<"deposit", "25">>),
              Btn("$50", <<"deposit", "50">>), Btn("$100", <<"deposit", "100">>),
              Btn("$250", <<"deposit", "250">>), Btn("$500", <<"deposit", "500">>),
              Btn("Custom Amount", <<"deposit", "custom">>),
              Btn("View Balance", <<"view", "balance">>), Btn("Back", <<"main", "menu">>)}, ""), tg)

A_showHelp(run, chatId, tg) ==
    Send(run, chatId,
         Msg("help", "", {Btn("Play Now", <<"view", "web", "app">>), Btn("Deposit Funds", <<"deposit", "menu">>),
          Btn("Contact Support", <<>>)}, ""), tg)

openWebApp(run, chatId, tg) ==
    Send(run, chatId, Msg("web_app", "", {Btn("Open Game Interface", <<>>)}, ""), tg)

A_sendWelcomeMessage(run, chatId, tg) ==
    Send(run, chatId,
         Msg("welcome", "", {Btn("Play Now", <<"view", "web", "app">>), Btn("Check Balance", <<"view", "balance">>)}, ""), tg)

\* the buttons showCardSelection builds for the cards of one page
RECURSIVE CardButtons(_, _)
CardButtons(gameId, cards) ==
    IF cards = <<>> THEN {}
    ELSE {Btn("#", <<"buy", "card", gameId, ToString(Head(cards))>>)}
         \cup CardButtons(gameId, Tail(cards))

\* showCardSelection(chatId, gameId, page)
showCardSelection(run, chatId, gameId, page, outcome, cards, totalPages, tg) ==
    LET body == Call(run, Req("get-cards-page", "", gameId, JsonNumber(page), outcome, ""))
        nav == (IF page # NaN /\ page > 1
                THEN {Btn("Previous", <<"select", "card", "page", gameId, ToString(page - 1)>>)}
                ELSE {})
               \cup {Btn("Page", <<"noop">>)}
               \cup (IF page # NaN /\ page < totalPages
                     THEN {Btn("Next", <<"select", "card", "page", gameId, ToString(page + 1)>>)}
                     ELSE {})
        kb == CardButtons(gameId, cards) \cup nav
              \cup {Btn("Buy Random Card", <<"buy", "card", gameId, "random">>),
                     Btn("Cancel", <<"main", "menu">>)}
        try == Send(IF outcome = "rejected" THEN Throw(body) ELSE body, chatId,
                    Msg("card_list", "", kb, ""), tg)
    IN IF try.thrown
       THEN Send(Caught(try), chatId, Msg("cards_page_error", "", {}, ""), tg)
       ELSE try

\* data.startsWith(pre + '_'), on the tokens data.split('_')
StartsWith(data, pre) ==
    Len(data) > Len(pre) /\ SubSeq(data, 1, Len(pre)) = pre

\* tokens.join('_')
RECURSIVE JoinTokens(_)
JoinTokens(tokens) ==
    IF tokens = <<>> THEN ""
    ELSE IF Len(tokens) = 1 THEN tokens[1]
    ELSE tokens[1] \o "_" \o JoinTokens(Tail(tokens))

\* element i of a destructured array: undefined (here "") past the end
At(tokens, i) == IF i \in DOMAIN tokens THEN tokens[i] ELSE ""

\* the callback_query handler of setupCallbacks; data is callbackQuery.data.split('_')
A_callback_query(chatId, data, ackOk, outcome, error, cards, totalPages, tg) ==
    LET ack == IF ackOk THEN NewRun ELSE Throw(NewRun)
        sliced == SubSeq(data, 3, Len(data))
        branch ==
            IF StartsWith(data, <<"join", "game">>)
            THEN Throw(ack)           \* this.joinGame is not defined by the class
            ELSE IF StartsWith(data, <<"buy", "card">>)
            THEN buyCard(ack, chatId, At(data, 2), parseInt(At(data, 3)), outcome, error, tg)
            ELSE IF StartsWith(data, <<"select", "card", "page">>)
            THEN showCardSelection(ack, chatId, At(sliced, 2), parseInt(At(sliced, 3)),
                                   outcome, cards, totalPages, tg)
            ELSE IF data = <<"view", "web", "app">>
            THEN openWebApp(ack, chatId, tg)
            ELSE IF data = <<"view", "balance">>
            THEN A_showBalance(ack, chatId, outcome, tg)
            ELSE IF StartsWith(data, <<"deposit">>)
            THEN processDeposit(ack, chatId, JoinTokens(Tail(data)), outcome, tg)
            ELSE IF data = <<"claim", "bingo">>
            THEN claimBingo(ack, chatId, outcome, tg)
            ELSE IF data = <<"main", "menu">>
            THEN showMainMenu(ack, chatId, tg)
            ELSE ack
        try == IF ack.thrown THEN ack ELSE branch
    IN IF try.thrown
       THEN Send(Caught(try), chatId, Msg("callback_error", "", {}, ""), tg)
       ELSE try

\* the /start handler of setupMessageHandlers
A_start(chatId, outcome, tg) ==
    LET body == Call(NewRun, Req("register", "", "", Null, outcome, ""))
        greet == IF outcome = "ok"
                 THEN A_sendWelcomeMessage(body, chatId, tg)
                 ELSE Send(body, chatId, Msg("welcome_back", "", {}, ""), tg)
        try == showMainMenu(greet, chatId, tg)
    IN IF try.thrown
       THEN Send(Caught(try), chatId, Msg("start_error", "", {}, ""), tg)
       ELSE try

\* the texts this model sends to the bot: the commands, the reply-keyboard
\* captions handleQuickAction knows, and a text that is neither
CommandTexts == {"/balance", "/deposit", "/withdraw", "/cards", "/stats",
                 "/invite", "/help", "/menu"}
QuickTexts == {"Wallet", "My Cards", "Statistics", "Invite Friends", "Help",
               "Support", "Claim Bingo", "hello"}

\* the texts whose handler asks the backend
BackendTexts == {"/balance", "Wallet", "/cards", "My Cards", "/stats", "Statistics",
                 "/invite", "Invite Friends", "Claim Bingo"}

\* msg.text as the model holds it: its words, where a word is either a command
\* name or holds no command; a caption of the reply keyboard is one word
RECURSIVE Text(_)
Text(words) ==
    IF words = <<>> THEN ""
    ELSE IF Len(words) = 1 THEN words[1]
    ELSE words[1] \o " " \o Text(Tail(words))

\* the commands of the onText registrations, in the order setupMessageHandlers
\* registers them (/start and /play, which come first, are followed apart)
RegisteredCommands == <<"/balance", "/deposit", "/withdraw", "/cards", "/stats",
                        "/invite", "/help", "/menu">>

\* regexp.exec(msg.text) of onText(/\/name/, ...): the regular expression has no
\* anchors and finds the command anywhere in the text
Matches(command, words) == \E i \in DOMAIN words : words[i] = command

\* msg.text.startsWith('/')
startsWithSlash(words) == words # <<>> /\ \E c \in {"/start", "/play"} \cup
                              {RegisteredCommands[k] : k \in DOMAIN RegisteredCommands} :
                                  words[1] = c

\* the callback of the onText registration of a command; none has a try block
A_onText(run, chatId, command, outcome, hasCards, tg) ==
    CASE command = "/balance" -> A_showBalance(run, chatId, outcome, tg)
      [] command = "/deposit" -> showDepositOptions(run, chatId, tg)
      [] command = "/withdraw" -> Throw(run)   \* this.showWithdrawOptions is not defined
      [] command = "/cards" -> showUserCards(run, chatId, outcome, hasCards, tg)
      [] command = "/stats" -> showUserStats(run, chatId, outcome, tg)
      [] command = "/invite" -> showInviteOptions(run, chatId, outcome, tg)
      [] command = "/help" -> A_showHelp(run, chatId, tg)
      [] command = "/menu" -> showMainMenu(run, chatId, tg)
      [] OTHER -> run

\* the captions handleQuickAction has a case for (Play Game is followed apart)
QuickCases == {"Wallet", "My Cards", "Statistics", "Invite Friends", "Help",
               "Support", "Claim Bingo"}

\* handleQuickAction(msg): the switch on the whole text
handleQuickAction(run, chatId, text, outcome, hasCards, tg) ==
    CASE text = "Wallet" -> A_showBalance(run, chatId, outcome, tg)
      [] text = "My Cards" -> showUserCards(run, chatId, outcome, hasCards, tg)
      [] text = "Statistics" -> showUserStats(run, chatId, outcome, tg)
      [] text = "Invite Friends" -> showInviteOptions(run, chatId, outcome, tg)
      [] text = "Help" -> A_showHelp(run, chatId, tg)
      [] text = "Support" -> Send(run, chatId, Msg("support", "", {}, ""), tg)
      [] text = "Claim Bingo" -> claimBingo(run, chatId, outcome, tg)
      [] OTHER -> run

\* the handlers one text message starts, in the order processUpdate calls them:
\* the 'message' listener first, then every onText callback whose regular
\* expression matches (the bot is created without onlyFirstMatch)
HandlersFor(words) ==
    (IF ~startsWithSlash(words) /\ Text(words) \in QuickCases THEN <<Text(words)>> ELSE <<>>)
    \o SelectSeq(RegisteredCommands, LAMBDA c : Matches(c, words))

\* the handlers of a text message, each an async function of its own: what one
\* throws rejects its own promise and does not stop the next
RECURSIVE RunHandlers(_, _, _, _, _, _)
RunHandlers(run, chatId, handlers, outcome, hasCards, tg) ==
    IF handlers = <<>> THEN run
    ELSE LET entry == [run EXCEPT !.thrown = FALSE]
             h == Head(handlers)
             r == IF h \in QuickCases
                  THEN handleQuickAction(entry, chatId, h, outcome, hasCards, tg)
                  ELSE A_onText(entry, chatId, h, outcome, hasCards, tg)
         IN RunHandlers([r EXCEPT !.thrown = r.thrown \/ run.thrown], chatId,
                        Tail(handlers), outcome, hasCards, tg)

\* a text message arrives (/start and /play apart)
A_message(chatId, words, outcome, hasCards, tg) ==
    RunHandlers(NewRun, chatId, HandlersFor(words), outcome, hasCards, tg)

\* the message sendGameNotification of part_000 builds for an event
A_notificationMessage(chatId, event) ==
    LET type == event.type
        gameId == event.gameId
    IN CASE type = "game_starting" ->
                Msg(type, "", {Btn("Buy Cards", <<"select", "card", "page", gameId, "1">>)}, "")
         [] type = "number_called" -> Msg(type, "", {Btn("View Game", <<"join", "game", gameId>>)}, "")
         [] type = "player_joined" -> Msg(type, "", {}, "")
         [] type = "card_sold" -> Msg(type, "", {}, "")
         [] type = "winner" ->
                Msg(IF event.userId = getUserId(chatId) THEN "you_won" ELSE "opponent_won",
                    "", {Btn("Play Again", <<"main", "menu">>)}, "")
         [] type = "game_ending" -> Msg(type, "", {Btn("Claim Bingo", <<"claim", "bingo">>)}, "")
         [] OTHER -> Msg("", "", {}, "")

\* a sendGameNotification without its catch: a failed send rejects the call
A_sendGameNotification_rethrowing(run, chatId, event, tg) ==
    LET m == A_notificationMessage(chatId, event)
    IN IF m.kind # "" THEN Send(run, chatId, m, tg) ELSE run

\* sendGameNotification(chatId, gameId, type, data) of part_000
A_sendGameNotification(run, chatId, event, tg) ==
    LET m == A_notificationMessage(chatId, event)
        try == IF m.kind # "" THEN Send(run, chatId, m, tg) ELSE run
    IN IF try.thrown THEN Caught(try) ELSE try

\* the for loop of broadcastGameUpdate: players is the list of telegramChatId
\* values, 0 for a player without one
RECURSIVE NotifyPlayers(_, _, _, _)
NotifyPlayers(run, players, event, tg) ==
    IF players = <<>> THEN run
    ELSE NotifyPlayers(IF Head(players) # 0
                       THEN A_sendGameNotification(run, Head(players), event, tg)
                       ELSE run,
                       Tail(players), event, tg)

\* broadcastGameUpdate(gameId, type, data)
broadcastGameUpdate(event, outcome, players, tg) ==
    LET body == Call(NewRun, Req("get-players", "", event.gameId, Null, outcome, ""))
        try == IF body.thrown THEN body
               ELSE IF outcome = "rejected" THEN Throw(body)   \* players is undefined
               ELSE NotifyPlayers(body, players, event, tg)
    IN IF try.thrown THEN Caught(try) ELSE try

\* value || fallback on numbers: 0, NaN and undefined are falsy
OrElse(value, fallback) == IF value \in {0, Null, NaN} THEN fallback ELSE value

\* the message handlePlayCommand of part_000 builds for the current game; its
\* text is held by the count it shows after Cards Available
A_gameMessage(gameId, status, availableCards) ==
    Msg("game_info", ToString(OrElse(availableCards, 400)),
        (IF status = "waiting"
         THEN {Btn("Select Cards", <<"select", "card", "page", gameId, "1">>),
               Btn("View Game", <<"join", "game", gameId>>)}
         ELSE IF status = "active"
         THEN {Btn("View Numbers", <<"join", "game", gameId>>),
               Btn("Claim Bingo", <<"claim", "bingo">>)}
         ELSE {})
        \cup {Btn("Open Web App", <<"view", "web", "app">>)},
        status)

\* an exception leaving handlePlayCommand: each of the `frames` nested calls has
\* its own catch, which sends the error message; when that send fails too the
\* exception goes on to the caller's catch
RECURSIVE Unwind(_, _, _, _)
Unwind(run, chatId, frames, tg) ==
    IF ~run.thrown \/ frames = 0 THEN run
    ELSE Unwind(Send(Caught(run), chatId, Msg("play_error", "", {}, ""), tg),
                chatId, frames - 1, tg)

\* handlePlayCommand of part_000 from its entry to the await of create-game (or
\* to its end); game is the status of response.data.game, "none" when there is none
A_playGet(chatId, frames, outcome, gameId, game, availableCards, tg) ==
    LET body == Call(NewRun, Req("get-current-game", "", "", Null, outcome, ""))
        shown == IF game # "none"
                 THEN Send(body, chatId, A_gameMessage(gameId, game, availableCards), tg)
                 ELSE Send(body, chatId, Msg("no_games", "", {}, ""), tg)
    IN Unwind(shown, chatId, frames, tg)

\* handlePlayCommand of part_000 at `await axios.post(.../api/games)`
A_playCreate(chatId, frames, outcome, tg) ==
    Unwind(Call(NewRun, Req("create-game", "", "", Null, outcome, "")), chatId, frames, tg)

-----------------------------------------------------------------------------
(* src/telegram-bot/src/bot.js; this.api (services/apiClient) is not part of   *)
(* the sources: a call of it either returns a body or throws, as outcome says  *)

\* the /start handler: registers and stores the session
B_start(chatId, outcome, tg) ==
    LET body == Call(NewRun, Req("register", "", "", Null, outcome, ""))
        try == IF outcome = "ok"
               THEN Send(body, chatId, Msg("welcome", "", {}, ""), tg)
               ELSE Send(body, chatId, Msg("register_failed", "", {}, ""), tg)
    IN IF try.thrown
       THEN Send(Caught(try), chatId, Msg("start_error", "", {}, ""), tg)
       ELSE try

\* showGameInfo(chatId, game); the text is held by the count it shows after
\* Available Cards
showGameInfo(run, chatId, gameId, status, cards_sold, tg) ==
    Send(run, chatId,
         Msg("game_info", ToString(400 - OrElse(cards_sold, 0)),
             (IF status = "waiting"
              THEN {Btn("Select Cards", <<"select", "cards", gameId>>),
                    Btn("Buy Random", <<"buy", "random", gameId>>)}
              ELSE IF status = "active"
              THEN {Btn("View Numbers", <<"view", "numbers", gameId>>),
                    Btn("Claim Bingo", <<"claim", "bingo", gameId>>)}
              ELSE {})
             \cup {Btn("Open Web App", <<>>)},
             status), tg)

\* handlePlayCommand of bot.js; game is the status of currentGame.game, "none"
\* when there is none, and created the status of the game createNewGame returns
B_handlePlayCommand(chatId, outcome, gameId, game, cards_sold, createOutcome, created, tg) ==
    LET current == Call(NewRun, Req("get-current-game", "", "", Null, outcome, ""))
        try == IF game = "none" \/ outcome = "rejected"
               THEN showGameInfo(
                        Call(Send(current, chatId, Msg("creating_game", "", {}, ""), tg),
                             Req("create-game", "", "", Null, createOutcome, "")),
                        chatId, gameId, created, cards_sold, tg)
               ELSE showGameInfo(current, chatId, gameId, game, cards_sold, tg)
    IN IF try.thrown
       THEN Send(Caught(try), chatId, Msg("play_error", "", {}, ""), tg)
       ELSE try

\* a showBalance that asks the backend without looking for the session first
B_showBalance_unchecked(chatId, session, outcome, tg) ==
    LET try == Send(LET body == Call(NewRun, Req("get-balance", session, "", Null,
                                                 outcome, ""))
                    IN IF outcome = "rejected" THEN Throw(body) ELSE body,
                    chatId, Msg("balance", "", {}, ""), tg)
    IN IF try.thrown
       THEN Send(Caught(try), chatId, Msg("balance_error", "", {}, ""), tg)
       ELSE try

\* showBalance(chatId) of bot.js; session is this.userSessions.get(chatId)
B_showBalance(chatId, session, outcome, tg) ==
    LET try == IF session = NoSession
               THEN Send(NewRun, chatId, Msg("send_start_first", "", {}, ""), tg)
               ELSE Send(LET body == Call(NewRun, Req("get-balance", session, "", Null,
                                                     outcome, ""))
                         IN IF outcome = "rejected" THEN Throw(body) ELSE body,
                         chatId,
                         Msg("balance", "",
                             {Btn("Deposit", <<"deposit">>), Btn("Withdraw", <<"withdraw">>),
                              Btn("Transfer", <<"transfer">>), Btn("History", <<"history">>),
                              Btn("Main Menu", <<"main", "menu">>)}, ""), tg)
    IN IF try.thrown
       THEN Send(Caught(try), chatId, Msg("balance_error", "", {}, ""), tg)
       ELSE try

\* showHelp(chatId) of bot.js: no try block
B_showHelp(chatId, tg) ==
    Send(NewRun, chatId,
         Msg("help", "", {Btn("Play Now", <<"play", "now">>), Btn("Deposit Funds", <<"deposit">>),
                          Btn("Contact Support", <<>>)}, ""), tg)

\* sendGameNotification(chatId, notification) of bot.js
B_sendGameNotification(chatId, notification, tg) ==
    LET type == notification.type
        m == CASE type = "game_starting" ->
                    Msg(type, "", {Btn("Buy Cards", <<"select", "cards", notification.gameId>>)}, "")
               [] type = "number_called" -> Msg(type, "", {}, "")
               [] type = "winner" ->
                    Msg(IF notification.isWinner THEN "you_won" ELSE "opponent_won", "", {}, "")
               [] OTHER -> Msg("", "", {}, "")
        try == IF m.kind # "" THEN Send(NewRun, chatId, m, tg) ELSE NewRun
    IN IF try.thrown THEN Caught(try) ELSE try

-----------------------------------------------------------------------------
(* src/geez-bingo-frontend/src/context/SocketContext.js: SocketProvider and    *)
(* GameRoom.  The socket exists (a token is set); the room is mounted for the   *)
(* gameId of the route, `room`; the user useAuth() gives is WebUser.  Toasts   *)
(* go to `out` with to = 0.                                                    *)

WebUser == "u1"

\* called numbers the gameState events of the model carry (B1 and I17)
Calls == {1, 17}

\* card numbers the Buy Random Card button of the model draws from 1..400
CardNumbers == {1, 400}

NoGameState == [status |-> "none", calledNumbers |-> <<>>, timeLeft |-> 0]
NoWinner == ""
NoRoom == ""

Letters == <<"B", "I", "N", "G", "O">>

\* a card as the backend hands it out: card.numbers[row][col] with the flags
\* free and called; flagged is the set of numbers the snapshot has called = true
Cell(row, col, flagged) ==
    IF row = 2 /\ col = 2
    THEN [letter |-> "N", number |-> Null, free |-> TRUE, called |-> TRUE]
    ELSE [letter |-> Letters[col + 1], number |-> 15 * col + row + 1, free |-> FALSE,
          called |-> (15 * col + row + 1) \in flagged]

Card(number, flagged) ==
    [number |-> number,
     numbers |-> [row \in 0..4 |-> [col \in 0..4 |-> Cell(row, col, flagged)]]]

\* no card: useState(null) of selectedCard; card numbers start at 1
NoCard == Card(0, {})

\* card.numbers.flat()
Cells(c) == {c.numbers[row][col] : row \in 0..4, col \in 0..4}

\* the snapshot purchaseCard returns for a card number: the card as built, the
\* backend sells cards before it calls numbers
CardPool(number) == {Card(number, {})}

\* sequences over S of length at most n
RECURSIVE SeqsUpTo(_, _)
SeqsUpTo(S, n) ==
    IF n = 0 THEN {<<>>}
    ELSE LET shorter == SeqsUpTo(S, n - 1)
         IN shorter \cup {Append(q, x) : q \in {t \in shorter : Len(t) = n - 1}, x \in S}

Toast(run, kind, text) ==
    Send(run, 0, Msg(kind, text, {}, ""), <<>>)

\* socket.on('gameState', ...) of GameRoom: setGameState(state); setTimeLeft(state.timeLeft || 0)
W_gameState(current, state) == state

\* a numberCalled handler that appends the number to calledNumbers
W_numberCalled_appending(current, data) ==
    [current EXCEPT !.calledNumbers = Append(@, data.number)]

\* socket.on('numberCalled', ...) of GameRoom: a toast, no state is set
W_numberCalled(current, data) == current

\* Card Statistics of the selected-card modal, "Numbers Marked":
\* selectedCard.numbers.flat().filter(cell => cell.called).length
markedShown(c) == Cardinality({cell \in Cells(c) : cell.called})

\* leaveGame of GameContext (not part of the sources): the leave-game control
\* message for gameId
leaveGame(run, gameId, result) ==
    Call(run, Req("leaveGame", "", gameId, Null, result, ""))

\* the body of GameRoom's effect for gameId: socket.emit('joinGame', { gameId });
\* the listeners it registers are the W_ actions below
roomEffect(run, gameId, result) ==
    Call(run, Req("joinGame", "", gameId, Null, result, ""))

\* socketInstance.on(event, ...) / socket.on(event, ...) by a component
Listener(event, owner) == [event |-> event, owner |-> owner]

\* the listeners SocketProvider attaches when it creates the socket
ProviderListeners ==
    {Listener(e, "SocketProvider") :
        e \in {"connect", "disconnect", "connect_error", "reconnect_attempt",
               "reconnect", "gameState", "error"}}

\* the events the GameRoom effect listens to
RoomEvents == {"gameState", "numberCalled", "cardPurchased", "winnerDeclared", "gameEnded"}

\* the five socket.on(...) calls of the GameRoom effect
roomOn(attached) == attached \cup {Listener(e, "GameRoom") : e \in RoomEvents}

\* socket.off(event) without a listener argument takes every listener of the
\* event off; the cleanup calls it for each of the five events
roomOff(attached) == {l \in attached : l.event \notin RoomEvents}

\* a cleanup that takes the listeners off and sends nothing
roomCleanup_listenersOnly(run, gameId, result) == run

\* the cleanup the effect returns, for the gameId of the run it belongs to:
\* socket.off(...) five times and leaveGame(gameId)
roomCleanup(run, gameId, result) == leaveGame(run, gameId, result)

\* the game rooms a client is subscribed to after the control messages of a run
RECURSIVE Subscribed(_, _)
Subscribed(before, requests) ==
    IF requests = <<>> THEN before
    ELSE LET r == Head(requests)
         IN Subscribed(CASE r.api = "joinGame" -> before \cup {r.gameId}
                         [] r.api = "leaveGame" -> before \ {r.gameId}
                         [] OTHER -> before,
                       Tail(requests))

\* GameControls is not part of the sources; it gets gameStatus and onClaimBingo,
\* and is taken to offer the claim while the game is active
GameControlsOffersClaim(status) == status = "active"

\* the My Bingo Cards panel: the Buy Random Card button is rendered iff the
\* room is past its loading screen and myCards is empty
OffersBuyRandomCard(state, cards) == state # NoGameState /\ Len(cards) = 0

\* purchaseCard of GameContext (not part of the sources): one buy-card request,
\* which returns the card or throws an Error with the backend's message
purchaseCard(run, gameId, cardNumber, outcome, error) ==
    LET r == Call(run, Req("buy-card", WebUser, gameId, cardNumber, outcome, error))
    IN IF outcome # "ok" THEN Throw(r) ELSE r

\* handlePurchaseCard(cardNumber)
handlePurchaseCard(gameId, cardNumber, outcome, error) ==
    LET try == Toast(purchaseCard(NewRun, gameId, cardNumber, outcome, error),
                     "toast_success", "purchased")
    IN IF try.thrown
       THEN Toast([try EXCEPT !.thrown = FALSE], "toast_error", error)
       ELSE try

\* handleClaimBingo(): socket.emit('claimBingo', { gameId }) and a toast; the emit
\* has no acknowledgement callback.  result says what became of the packet
handleClaimBingo(gameId, result) ==
    Toast(Call(NewRun, Req("claim-bingo", "", gameId, Null, result, "")),
          "toast", "Checking for BINGO...")

\* what socket.emit does with a packet: sent while connected; otherwise it is
\* buffered for the next connect, or lost when reconnection has been given up
\* (reconnectionAttempts: 5)
EmitResults(connected) == IF connected THEN {"sent"} ELSE {"buffered", "lost"}

-----------------------------------------------------------------------------
(* The card model and the win detector.  The clients of src/ only read cards   *)
(* (card.numbers[row][col] with letter, number, free, called) and hand them to *)
(* components that are not part of the sources; construction, marking and win *)
(* detection are modelled from the description of the card model.             *)

\* the number below the first number of each column B, I, N, G, O
ColumnRanges == <<0, 15, 30, 45, 60>>

\* a card whose centre cell is an ordinary numbered cell
buildCard_numberedCentre(number, columnRanges) ==
    [number |-> number,
     numbers |-> [row \in 0..4 |-> [col \in 0..4 |->
                    [letter |-> Letters[col + 1], number |-> columnRanges[col + 1] + row + 1,
                     free |-> FALSE, called |-> FALSE]]]]

\* buildCard(number, columnRanges): five columns of five cells, the centre FREE
buildCard(number, columnRanges) ==
    [number |-> number,
     numbers |-> [row \in 0..4 |-> [col \in 0..4 |->
                    IF row = 2 /\ col = 2
                    THEN [letter |-> "N", number |-> Null, free |-> TRUE, called |-> TRUE]
                    ELSE [letter |-> Letters[col + 1],
                          number |-> columnRanges[col + 1] + row + 1,
                          free |-> FALSE, called |-> FALSE]]]]

\* a marking that flips the matching cell
applyCalledNumber_toggling(c, letter, number) ==
    [c EXCEPT !.numbers = [row \in 0..4 |-> [col \in 0..4 |->
        LET cell == c.numbers[row][col]
        IN IF ~cell.free /\ cell.letter = letter /\ cell.number = number
           THEN [cell EXCEPT !.called = ~@]
           ELSE cell]]]

\* applyCalledNumber(card, letter, number): the non-free cell that matches gets
\* called = true; no match, no change
applyCalledNumber(c, letter, number) ==
    [c EXCEPT !.numbers = [row \in 0..4 |-> [col \in 0..4 |->
        LET cell == c.numbers[row][col]
        IN IF ~cell.free /\ cell.letter = letter /\ cell.number = number
           THEN [cell EXCEPT !.called = TRUE]
           ELSE cell]]]

\* markedCount(card): cells with called = true, the FREE cell included
markedCount(c) == Cardinality({rc \in (0..4) \X (0..4) : c.numbers[rc[1]][rc[2]].called})

\* a pattern: a row, a column or a diagonal; NoWin is the detector's "no win"
Pattern(kind, index) == [kind |-> kind, index |-> index]
NoWin == Pattern("none", 0)

\* the positions <<row, col>> a pattern covers; diagonal 0 runs top-left to
\* bottom-right, diagonal 1 top-right to bottom-left
PatternCells(p) ==
    CASE p.kind = "row" -> {<<p.index, col>> : col \in 0..4}
      [] p.kind = "column" -> {<<row, p.index>> : row \in 0..4}
      [] p.kind = "diagonal" /\ p.index = 0 -> {<<k, k>> : k \in 0..4}
      [] p.kind = "diagonal" /\ p.index = 1 -> {<<k, 4 - k>> : k \in 0..4}
      [] OTHER -> {}

\* a pattern is complete iff every cell it covers has called = true
Complete(c, p) == \A rc \in PatternCells(p) : c.numbers[rc[1]][rc[2]].called

\* the first complete pattern of a list
RECURSIVE FirstComplete(_, _)
FirstComplete(c, patterns) ==
    IF patterns = <<>> THEN NoWin
    ELSE IF Complete(c, Head(patterns)) THEN Head(patterns)
    ELSE FirstComplete(c, Tail(patterns))

RowPatterns == [i \in 1..5 |-> Pattern("row", i - 1)]
ColumnPatterns == [i \in 1..5 |-> Pattern("column", i - 1)]
DiagonalPatterns == <<Pattern("diagonal", 0), Pattern("diagonal", 1)>>

\* a detector that looks at rows and columns only
detectWin_noDiagonals(c) == FirstComplete(c, RowPatterns \o ColumnPatterns)

\* a detector that looks at the columns before the rows
detectWin_columnsFirst(c) ==
    FirstComplete(c, ColumnPatterns \o RowPatterns \o DiagonalPatterns)

\* the win detector: rows top to bottom, columns left to right, the diagonals
detectWin(c) == FirstComplete(c, RowPatterns \o ColumnPatterns \o DiagonalPatterns)

\* the calls applied in the model: the numbers of row 0, of column 0 and of both
\* diagonals of a card, B16 (the number of another column) and O75 (on no card)
ModelCalls ==
    {<<Letters[rc[2] + 1], ColumnRanges[rc[2] + 1] + rc[1] + 1>> :
        rc \in (PatternCells(Pattern("row", 0)) \cup PatternCells(Pattern("column", 0))
                \cup PatternCells(Pattern("diagonal", 0))
                \cup PatternCells(Pattern("diagonal", 1))) \ {<<2, 2>>}}
    \cup {<<"B", 16>>, <<"O", 75>>}

-----------------------------------------------------------------------------
(* Inputs of the model *)

\* callback_data the keyboards of part_000 carry, split at '_'
CallbackData ==
    {<<"join", "game", RoomGame>>, <<"view", "web", "app">>, <<"view", "balance">>,
     <<"deposit", "10">>, <<"deposit", "custom">>, <<"deposit", "menu">>,
     <<"claim", "bingo">>, <<"main", "menu">>, <<"noop">>, <<"view", "active", "game">>,
     <<"withdraw", "menu">>, <<"transfer", "menu">>, <<"transaction", "history">>,
     <<"copy", "address">>, <<"check", "deposit">>}
    \cup {<<"buy", "card", g, n>> : g \in GameIds, n \in {"1", "random"}}
    \cup {<<"select", "card", "page", RoomGame, n>> : n \in {"1", "2"}}

\* whether the backend is asked anything when this button is pressed
CallsBackend(data) ==
    \/ StartsWith(data, <<"buy", "card">>)
    \/ StartsWith(data, <<"select", "card", "page">>)
    \/ StartsWith(data, <<"deposit">>)
    \/ data \in {<<"view", "balance">>, <<"claim", "bingo">>}

OutcomesFor(data) == IF CallsBackend(data) THEN HttpOutcomes ELSE {"ok"}

ErrorsFor(data, outcome) ==
    IF StartsWith(data, <<"buy", "card">>) /\ outcome \in {"rejected", "http_error"}
    THEN DomainErrors ELSE {""}

\* pages of available cards get-cards-page answers with
CardPages == {<<>>, <<1, 400>>}

\* notifications the backend pushes to the bots
NotificationTypes == {"game_starting", "number_called", "player_joined", "card_sold",
                      "winner", "game_ending"}

Notifications ==
    {[NoEvent EXCEPT !.type = t, !.gameId = RoomGame] :
        t \in NotificationTypes \ {"winner"}}
    \cup {[NoEvent EXCEPT !.type = "winner", !.gameId = RoomGame, !.userId = u,
                          !.isWinner = w] :
            u \in {getUserId(1), "u1", "u2"}, w \in BOOLEAN}

\* lists of telegramChatId values get-players answers with (0: none)
PlayerLists == {<<>>, <<1>>, <<0, 2>>, <<1, 2>>, <<1, 0, 2>>}

-----------------------------------------------------------------------------
(* Actions of part_000.  bot.processUpdate starts the handler of an update and *)
(* does not wait for the promise it returns, so the next update is taken up    *)
(* while a handler is at an await.  /play is the handler the model splits at   *)
(* its awaits: while it waits (playPc # "idle") the handlers of text messages  *)
(* run in between.  The other handlers are followed only from playPc = "idle": *)
(* no handler reads or writes what /play keeps between its awaits, so every    *)
(* run of a handler the bot can make is still made.                            *)

\* /start arrives; response.data of a successful registration carries the user
\* id the backend gave (the handler hands response.data on and keeps nothing)
A_Start ==
    \E chatId \in Chats, outcome \in HttpOutcomes, tg \in TgOutcomes :
      \E userId \in (IF outcome = "ok" THEN BackendUserIds ELSE {""}) :
        /\ playPc = "idle"
        /\ Finish("A", "start", chatId,
                  [NoEvent EXCEPT !.text = "/start", !.userId = userId],
                  A_start(chatId, outcome, tg))
        /\ UNCHANGED <<botVars, webVars, cardVars>>

\* the texts this model sends: one command, one caption or other word, and
\* two texts that hold a command after another word
MessageTexts ==
    {<<t>> : t \in CommandTexts \cup QuickTexts}
    \cup {<<"/help", "/menu">>, <<"hello", "/menu">>}

A_Message ==
    \E chatId \in Chats, words \in MessageTexts, tg \in TgFor(2) :
      \E outcome \in (IF Text(words) \in BackendTexts THEN HttpOutcomes ELSE {"ok"}) :
        \E hasCards \in (IF Text(words) \in {"/cards", "My Cards"} /\ outcome = "ok"
                         THEN BOOLEAN ELSE {FALSE}) :
        /\ Finish("A", "message", chatId,
                  [NoEvent EXCEPT !.text = Text(words), !.words = words,
                                  !.handlers = HandlersFor(words)],
                  A_message(chatId, words, outcome, hasCards, tg))
        /\ UNCHANGED <<botVars, webVars, cardVars>>

\* the cards sold of the game the backend answers with: one, or all 400; the
\* answer to part_000 carries availableCards = 400 - sold, the one to bot.js
\* cards_sold
SoldCounts == {1, 400}

SoldFor(outcome, game) == IF outcome = "ok" /\ game # "none" THEN SoldCounts ELSE {0}

\* the outcome of one round of handlePlayCommand: it goes on to create a game
\* iff the backend answered without a game and the notice was sent
PlayRound(chatId, frames, outcome, gameId, game, sold, tg) ==
    LET run == A_playGet(chatId, frames, outcome, gameId, game, 400 - sold, tg)
        goesOn == ~Throws(outcome) /\ game = "none" /\ run.out[1].ok
    IN /\ Finish("A", "play", chatId,
                 [NoEvent EXCEPT !.text = "/play", !.status = game, !.cardsSold = sold], run)
       /\ playPc' = IF goesOn THEN "create" ELSE "idle"
       /\ playChat' = IF goesOn THEN chatId ELSE 0
       /\ playCreates' = IF goesOn THEN frames - 1 ELSE 0

\* /play or the Play Game caption arrives
A_Play ==
    \E chatId \in Chats, outcome \in {"ok", "http_error", "transport"},
       game \in Statuses \cup {"none"}, tg \in TgFor(2) :
      \E sold \in SoldFor(outcome, game) :
        /\ playPc = "idle"
        /\ PlayRound(chatId, 1, outcome, RoomGame, game, sold, tg)
        /\ UNCHANGED <<userSessions, webVars, cardVars>>

\* the recursive call after create-game
A_PlayRecurse ==
    \E outcome \in {"ok", "http_error", "transport"},
       game \in Statuses \cup {"none"}, tg \in TgOutcomes :
      \E sold \in SoldFor(outcome, game) :
        /\ playPc = "get"
        /\ PlayRound(playChat, playCreates + 1, outcome, RoomGame, game, sold, tg)
        /\ UNCHANGED <<userSessions, webVars, cardVars>>

\* create-game answers
A_PlayCreate ==
    \E outcome \in {"ok", "http_error", "transport"}, tg \in TgOutcomes :
        /\ playPc = "create"
        /\ playCreates < MaxCreates
        /\ LET run == A_playCreate(playChat, playCreates + 1, outcome, tg)
           IN /\ Finish("A", "play", playChat, [NoEvent EXCEPT !.text = "/play"], run)
              /\ playPc' = IF Throws(outcome) THEN "idle" ELSE "get"
              /\ playChat' = IF Throws(outcome) THEN 0 ELSE playChat
              /\ playCreates' = IF Throws(outcome) THEN 0 ELSE playCreates + 1
        /\ UNCHANGED <<userSessions, webVars, cardVars>>

A_CallbackQuery ==
    \E chatId \in Chats, data \in CallbackData, ackOk \in BOOLEAN, tg \in TgFor(2) :
      \E outcome \in (IF ackOk THEN OutcomesFor(data) ELSE {"ok"}) :
        \E error \in ErrorsFor(data, outcome),
           cards \in (IF StartsWith(data, <<"select", "card", "page">>) /\ outcome = "ok"
                      THEN CardPages ELSE {<<>>}) :
            /\ playPc = "idle"
            /\ Finish("A", "callback_query", chatId,
                      [NoEvent EXCEPT !.data = data,
                                      !.status = IF ackOk THEN "answered" ELSE "not_answered"],
                      A_callback_query(chatId, data, ackOk, outcome, error, cards, 2, tg))
            /\ UNCHANGED <<botVars, webVars, cardVars>>

A_Notify ==
    \E chatId \in Chats, event \in Notifications, tg \in TgFor(1) :
        /\ playPc = "idle"
        /\ Finish("A", "notification", chatId, event,
                  A_sendGameNotification(NewRun, chatId, event, tg))
        /\ UNCHANGED <<botVars, webVars, cardVars>>

A_Broadcast ==
    \E event \in Notifications, outcome \in HttpOutcomes, tg \in TgFor(2) :
      \E players \in (IF outcome = "ok" THEN PlayerLists ELSE {<<>>}) :
        /\ playPc = "idle"
        /\ Finish("A", "broadcast", 0, [event EXCEPT !.players = players],
                  broadcastGameUpdate(event, outcome, players, tg))
        /\ UNCHANGED <<botVars, webVars, cardVars>>

-----------------------------------------------------------------------------
(* Actions of bot.js *)

B_Start ==
    \E chatId \in Chats, outcome \in {"ok", "rejected", "transport"},
       userId \in BackendUserIds, tg \in TgFor(2) :
        /\ Finish("B", "start", chatId, [NoEvent EXCEPT !.text = "/start", !.userId = userId],
                  B_start(chatId, outcome, tg))
        /\ userSessions' = IF outcome = "ok"
                           THEN [userSessions EXCEPT ![chatId] = userId]
                           ELSE userSessions
        /\ UNCHANGED <<playPc, playChat, playCreates, webVars, cardVars>>

B_Play ==
    \E chatId \in Chats, outcome \in {"ok", "transport"}, tg \in TgFor(3) :
     \E game \in (IF outcome = "ok" THEN Statuses \cup {"none"} ELSE {"none"}) :
      \E createOutcome \in (IF outcome = "ok" /\ game = "none"
                            THEN {"ok", "transport"} ELSE {"ok"}),
         created \in (IF outcome = "ok" /\ game = "none" THEN Statuses ELSE {"waiting"}),
         sold \in SoldFor(outcome, game) :
        /\ Finish("B", "play", chatId,
                  [NoEvent EXCEPT !.text = "/play", !.status = game, !.cardsSold = sold],
                  B_handlePlayCommand(chatId, outcome, RoomGame, game, sold, createOutcome,
                                      created, tg))
        /\ UNCHANGED <<botVars, webVars, cardVars>>

\* a /balance handler that reads one "current user" instead of the chat's session
B_Balance_sharedSession ==
    \E chatId \in Chats, outcome \in HttpOutcomes, tg \in TgFor(2) :
        /\ Finish("B", "balance", chatId, [NoEvent EXCEPT !.text = "/balance"],
                  B_showBalance(chatId, userSessions[1], outcome, tg))
        /\ UNCHANGED <<botVars, webVars, cardVars>>

B_Balance ==
    \E chatId \in Chats, outcome \in HttpOutcomes, tg \in TgFor(2) :
        /\ Finish("B", "balance", chatId, [NoEvent EXCEPT !.text = "/balance"],
                  B_showBalance(chatId, userSessions[chatId], outcome, tg))
        /\ UNCHANGED <<botVars, webVars, cardVars>>

B_Help ==
    \E chatId \in Chats, tg \in TgFor(1) :
        /\ Finish("B", "help", chatId, [NoEvent EXCEPT !.text = "/help"],
                  B_showHelp(chatId, tg))
        /\ UNCHANGED <<botVars, webVars, cardVars>>

B_Notify ==
    \E chatId \in Chats, event \in Notifications, tg \in TgFor(1) :
        /\ Finish("B", "notification", chatId, event,
                  B_sendGameNotification(chatId, event, tg))
        /\ UNCHANGED <<botVars, webVars, cardVars>>

-----------------------------------------------------------------------------
(* Actions of the web client *)

\* socketInstance.on('connect'): setIsConnected(true) and the authenticate emit
W_Connect ==
    /\ ~isConnected
    /\ isConnected' = TRUE
    /\ Finish("W", "connect", 0, NoEvent,
              Call(NewRun, Req("authenticate", WebUser, "", Null, "sent", "")))
    /\ UNCHANGED <<botVars, gameState, myCards, winner, winnerGames, roomVars, cardVars>>

\* socketInstance.on('disconnect'): setIsConnected(false)
W_Disconnect ==
    /\ isConnected
    /\ isConnected' = FALSE
    /\ Finish("W", "disconnect", 0, NoEvent, NewRun)
    /\ UNCHANGED <<botVars, gameState, myCards, winner, winnerGames, roomVars, cardVars>>

\* the calledNumbers a gameState event carries: the game calls no number twice
CalledSoFar ==
    {called \in SeqsUpTo(Calls, MaxCalls) :
        \A i, j \in DOMAIN called : called[i] = called[j] => i = j}

\* the game states the gateway pushes: numbers are called once the game is active
GameStates ==
    {[status |-> status, calledNumbers |-> called, timeLeft |-> 30] :
        status \in Statuses, called \in CalledSoFar} \
    {[status |-> "waiting", calledNumbers |-> called, timeLeft |-> 30] :
        called \in CalledSoFar \ {<<>>}}

W_GameState ==
    \E state \in GameStates :
        /\ isConnected
        /\ room # NoRoom
        /\ gameState' = W_gameState(gameState, state)
        /\ Finish("W", "gameState", 0,
                  [NoEvent EXCEPT !.type = "gameState", !.status = state.status,
                                  !.calledNumbers = state.calledNumbers], NewRun)
        /\ UNCHANGED <<botVars, isConnected, myCards, winner, winnerGames, roomVars, cardVars>>

W_NumberCalled ==
    \E number \in Calls, currentCalls \in 1..(MaxCalls + 1) :
        /\ isConnected
        /\ room # NoRoom
        /\ gameState' = W_numberCalled(gameState,
                                       [number |-> number, currentCalls |-> currentCalls])
        /\ Finish("W", "numberCalled", 0,
                  [NoEvent EXCEPT !.type = "number_called", !.number = number,
                                  !.currentCalls = currentCalls],
                  Toast(NewRun, "toast_success", "Number called"))
        /\ UNCHANGED <<botVars, isConnected, myCards, winner, winnerGames, roomVars, cardVars>>

\* a variant of the cardPurchased handler that also forgets the cards held
W_CardPurchased_clearing ==
    \E mine \in BOOLEAN :
        /\ isConnected
        /\ room # NoRoom
        /\ myCards' = IF mine THEN <<>> ELSE myCards
        /\ Finish("W", "cardPurchased", 0, [NoEvent EXCEPT !.type = "card_sold"],
                  IF mine THEN Toast(NewRun, "toast_success", "purchased") ELSE NewRun)
        /\ UNCHANGED <<botVars, isConnected, gameState, winner, winnerGames, roomVars,
                       cardVars>>

\* socket.on('cardPurchased', ...): a toast when data.playerId is this socket's id
W_CardPurchased ==
    \E mine \in BOOLEAN :
        /\ isConnected
        /\ room # NoRoom
        /\ Finish("W", "cardPurchased", 0, [NoEvent EXCEPT !.type = "card_sold"],
                  IF mine THEN Toast(NewRun, "toast_success", "purchased") ELSE NewRun)
        /\ UNCHANGED <<botVars, webVars, cardVars>>

\* socket.on('winnerDeclared', ...): setWinner(data) and the "<username> won" toast
W_WinnerDeclared ==
    \E userId \in BackendUserIds :
        /\ isConnected
        /\ room # NoRoom
        /\ winner' = userId
        /\ winnerGames' = winnerGames \cup {room}
        /\ Finish("W", "notification", 0,
                  [NoEvent EXCEPT !.type = "winner", !.gameId = room, !.userId = userId],
                  Toast(NewRun, "opponent_won", userId))
        /\ UNCHANGED <<botVars, isConnected, gameState, myCards, roomVars, cardVars>>

\* socket.on('gameEnded', ...): a toast
W_GameEnded ==
    /\ isConnected
    /\ room # NoRoom
    /\ Finish("W", "gameEnded", 0, [NoEvent EXCEPT !.type = "game_ended"],
              Toast(NewRun, "toast", "Game ended"))
    /\ UNCHANGED <<botVars, webVars, cardVars>>

\* the Buy Random Card button is pressed
W_PurchaseCard ==
    \E cardNumber \in CardNumbers, outcome \in {"ok", "rejected", "transport"} :
      \E error \in (IF outcome = "rejected" THEN DomainErrors
                    ELSE IF outcome = "transport" THEN {"Network Error"} ELSE {""}),
         bought \in (IF outcome = "ok" THEN CardPool(cardNumber) ELSE {Card(cardNumber, {})}) :
        /\ room # NoRoom
        /\ OffersBuyRandomCard(gameState, myCards)
        /\ myCards' = IF outcome = "ok" THEN Append(myCards, bought) ELSE myCards
        /\ Finish("W", "buyCard", 0, NoEvent,
                  handlePurchaseCard(room, cardNumber, outcome, error))
        /\ UNCHANGED <<botVars, isConnected, gameState, winner, winnerGames, roomVars, cardVars>>

\* the claim control of GameControls is pressed
W_ClaimBingo ==
    \E result \in EmitResults(isConnected) :
        /\ room # NoRoom
        /\ gameState # NoGameState
        /\ GameControlsOffersClaim(gameState.status)
        /\ Finish("W", "claimBingo", 0, NoEvent, handleClaimBingo(room, result))
        /\ UNCHANGED <<botVars, webVars, cardVars>>

\* WinnerModal onClose: setWinner(null)
W_CloseWinner ==
    /\ room # NoRoom
    /\ gameState # NoGameState
    /\ winner # NoWinner
    /\ winner' = NoWinner
    /\ Finish("W", "closeWinner", 0, NoEvent, NewRun)
    /\ UNCHANGED <<botVars, isConnected, gameState, myCards, winnerGames, roomVars, cardVars>>

\* the route shows GameRoom for gameId: the component mounts with its initial
\* state and its effect runs
W_Mount ==
    \E gameId \in GameIds, result \in EmitResults(isConnected) :
        /\ room = NoRoom
        /\ LET run == roomEffect(NewRun, gameId, result)
           IN /\ Finish("W", "mount", 0, [NoEvent EXCEPT !.gameId = gameId], run)
              /\ joined' = Subscribed(joined, run.reqs)
        /\ room' = gameId
        /\ listeners' = roomOn(listeners)
        /\ UNCHANGED <<botVars, isConnected, gameState, myCards, winner, winnerGames,
                       selectedCard, cardVars>>

\* a dependency of the effect changes while the room is mounted (the gameId of
\* the route, or the identity of joinGame / leaveGame): the cleanup of the
\* previous run, then the effect for the current gameId; the state stays
W_Rerun ==
    \E gameId \in GameIds, result \in EmitResults(isConnected) :
        /\ room # NoRoom
        /\ LET run == roomEffect(roomCleanup(NewRun, room, result), gameId, result)
           IN /\ Finish("W", "rerun", 0, [NoEvent EXCEPT !.gameId = gameId], run)
              /\ joined' = Subscribed(joined, run.reqs)
        /\ room' = gameId
        /\ listeners' = roomOn(roomOff(listeners))
        /\ UNCHANGED <<botVars, isConnected, gameState, myCards, winner, winnerGames,
                       selectedCard, cardVars>>

\* the route leaves the game room: the cleanup runs and the component's state
\* is gone
W_Unmount ==
    \E left \in EmitResults(isConnected) :
        /\ room # NoRoom
        /\ LET run == roomCleanup(NewRun, room, left)
           IN /\ Finish("W", "unmount", 0, [NoEvent EXCEPT !.gameId = room], run)
              /\ joined' = Subscribed(joined, run.reqs)
        /\ room' = NoRoom
        /\ listeners' = roomOff(listeners)
        /\ gameState' = NoGameState
        /\ myCards' = <<>>
        /\ winner' = NoWinner
        /\ selectedCard' = NoCard
        /\ UNCHANGED <<botVars, isConnected, winnerGames, cardVars>>

\* a card of the My Bingo Cards panel is clicked: setSelectedCard(card)
W_SelectCard ==
    \E i \in DOMAIN myCards :
        /\ room # NoRoom
        /\ gameState # NoGameState
        /\ selectedCard' = myCards[i]
        /\ Finish("W", "selectCard", 0, NoEvent, NewRun)
        /\ UNCHANGED <<botVars, isConnected, gameState, myCards, winner, winnerGames,
                       room, joined, listeners, cardVars>>

\* the close button of the selected-card modal: setSelectedCard(null)
W_CloseCard ==
    /\ selectedCard # NoCard
    /\ gameState # NoGameState
    /\ selectedCard' = NoCard
    /\ Finish("W", "closeCard", 0, NoEvent, NewRun)
    /\ UNCHANGED <<botVars, isConnected, gameState, myCards, winner, winnerGames,
                   room, joined, listeners, cardVars>>

-----------------------------------------------------------------------------
(* Actions of the card model *)

\* a card is built
C_BuildCard ==
    \E number \in CardNumbers :
        /\ card = NoCard
        /\ card' = buildCard(number, ColumnRanges)
        /\ win' = detectWin(card')
        /\ Finish("C", "buildCard", 0, NoEvent, NewRun)
        /\ UNCHANGED <<botVars, webVars>>

\* a call is applied to the card and the win check is run again
C_ApplyCall ==
    \E call \in ModelCalls :
        /\ card # NoCard
        /\ card' = applyCalledNumber(card, call[1], call[2])
        /\ win' = detectWin(card')
        /\ Finish("C", "applyCalledNumber", 0, NoEvent, NewRun)
        /\ UNCHANGED <<botVars, webVars>>

-----------------------------------------------------------------------------
(* Specifications *)

Init ==
    /\ op = Op("", "init", 0)
    /\ ev = NoEvent
    /\ out = <<>>
    /\ reqs = <<>>
    /\ uncaught = FALSE
    /\ logged = FALSE
    /\ playPc = "idle"
    /\ playChat = 0
    /\ playCreates = 0
    /\ userSessions = [c \in Chats |-> NoSession]
    /\ isConnected = FALSE
    /\ gameState = NoGameState
    /\ myCards = <<>>
    /\ winner = NoWinner
    /\ winnerGames = {}
    /\ room = NoRoom
    /\ joined = {}
    /\ selectedCard = NoCard
    /\ listeners = ProviderListeners
    /\ card = NoCard
    /\ win = NoWin

NextA ==
    \/ A_Start
    \/ A_Message
    \/ A_Play
    \/ A_PlayRecurse
    \/ A_PlayCreate
    \/ A_CallbackQuery
    \/ A_Notify
    \/ A_Broadcast

\* the notifications alone: the backend calls sendGameNotification and
\* broadcastGameUpdate, which read and write nothing the update handlers keep
NextN ==
    \/ A_Notify
    \/ A_Broadcast

NextB ==
    \/ B_Start
    \/ B_Play
    \/ B_Balance
    \/ B_Help
    \/ B_Notify

NextW ==
    \/ W_Connect
    \/ W_Disconnect
    \/ W_GameState
    \/ W_NumberCalled
    \/ W_CardPurchased
    \/ W_WinnerDeclared
    \/ W_GameEnded
    \/ W_PurchaseCard
    \/ W_ClaimBingo
    \/ W_CloseWinner
    \/ W_Mount
    \/ W_Rerun
    \/ W_Unmount
    \/ W_SelectCard
    \/ W_CloseCard

NextC ==
    \/ C_BuildCard
    \/ C_ApplyCall

\* the stand-alone bot, the session-based bot and the web client are separate
\* programs, and the card model is a pure component; each is checked on its own
SpecA == Init /\ [][NextA]_vars
SpecB == Init /\ [][NextB]_vars
SpecW == Init /\ [][NextW]_vars
SpecC == Init /\ [][NextC]_vars
SpecN == Init /\ [][NextN]_vars

-----------------------------------------------------------------------------
(* Properties *)

\* the user id of the session a message is shown to
LocalUserId(client, chat) ==
    CASE client = "A" -> getUserId(chat)
      [] client = "B" -> userSessions[chat]
      [] client = "W" -> WebUser
      [] OTHER -> ""

\* C1: a winner notification shows "you won" only to the session whose user id
\* is the event's userId; every other session gets the opponent variant.
ClaimC1 ==
    ev.type = "winner" =>
        \A i \in DOMAIN out :
            (out[i].ok /\ out[i].kind = "you_won")
                => ev.userId = LocalUserId(op.client, out[i].to)

MutatingApis == {"buy-card", "claim-bingo"}
FailedResults == {"rejected", "http_error", "transport", "lost"}
FailureKinds == {"backend_error", "buy_error", "claim_none", "claim_error",
                 "callback_error", "toast_error"}

\* C2: a buy-card or claim-bingo action makes at most one request, and when that
\* request fails a failure message is put to the user.
ClaimC2 ==
    LET mutating == {i \in DOMAIN reqs : reqs[i].api \in MutatingApis}
    IN /\ Cardinality(mutating) <= 1
       /\ \A i \in mutating :
              reqs[i].result \in FailedResults =>
                  \E j \in DOMAIN out : out[j].kind \in FailureKinds

\* C3: handling /play stops creating games at some bound; whatever horizon
\* MaxCreates the model follows the handler to, the handler stays below it.
ClaimC3 == playCreates < MaxCreates

\* a number_called event that is a replay for the state: its position is not
\* past the calls already applied, or its number is among them
Stale(data, state) ==
    \/ data.currentCalls <= Len(state.calledNumbers)
    \/ \E i \in DOMAIN state.calledNumbers : state.calledNumbers[i] = data.number

\* C4: processing a duplicate or out-of-order number_called event changes neither
\* calledNumbers nor the cards, the two things every card's marking is made of.
ClaimC4 ==
    [][(op'.name = "numberCalled" /\ Stale(ev', gameState))
        => (gameState' = gameState /\ myCards' = myCards)]_vars

WitnessC4 ==
    /\ op.name = "numberCalled"
    /\ Stale(ev, gameState)
    /\ gameState.calledNumbers # <<>>
    /\ myCards # <<>>

\* the moves of the game status a client may follow
ValidMove(from, to) ==
    \/ from = to
    \/ from = "none"
    \/ from = "waiting" /\ to = "active"
    \/ from = "active" /\ to = "completed"

\* C5: the status a client holds only moves waiting -> active -> completed; an
\* event that implies another move leaves the client's game state as it was.
ClaimC5 == [][ValidMove(gameState.status, gameState'.status)]_vars

ErrorKinds == {"start_error", "play_error", "cards_page_error", "buy_error",
               "balance_error", "deposit_error", "cards_error", "stats_error",
               "invite_error", "claim_error", "callback_error", "toast_error"}

AnyFailure ==
    \/ \E i \in DOMAIN reqs : Throws(reqs[i].result)
    \/ \E i \in DOMAIN out : ~out[i].ok

\* C6: no failure of a backend call or of a Telegram send leaves a handler
\* uncaught; the handler catches it and sends the user a message.
ClaimC6 ==
    /\ ~uncaught
    /\ AnyFailure => \E j \in DOMAIN out : out[j].kind \in ErrorKinds

\* C7: when the backend rejects buy-card for a domain reason and Telegram delivers
\* what the bot sends, the user is shown the backend's own message and not the
\* generic error message.
ClaimC7 ==
    \A i \in DOMAIN reqs :
        (/\ reqs[i].api = "buy-card"
         /\ reqs[i].error \in DomainErrors
         /\ \A j \in DOMAIN out : out[j].ok)
        => /\ \E j \in DOMAIN out :
                  out[j].kind \in {"backend_error", "toast_error"} /\ out[j].text = reqs[i].error
           /\ \A j \in DOMAIN out : out[j].kind \notin {"buy_error", "callback_error"}

\* C8: whenever a backend call fails with a transport error, a generic error
\* message is sent to the user; the failure is not only logged.
ClaimC8 ==
    \A i \in DOMAIN reqs :
        reqs[i].result = "transport" => \E j \in DOMAIN out : out[j].kind \in ErrorKinds

PurchaseCaptions == {"Select Cards", "Buy Random", "Buy Cards", "Buy Random Card"}
ActiveCaptions == {"View Numbers", "Claim Bingo"}

\* C9: card purchase is offered only while the game is waiting, View Numbers and
\* Claim Bingo only while it is active: in the game message of /play and in the
\* game room's card panel.
ClaimC9 ==
    /\ \A i \in DOMAIN out :
           out[i].kind = "game_info" =>
               /\ (\E b \in out[i].kb : b.text \in PurchaseCaptions) => out[i].status = "waiting"
               /\ (\E b \in out[i].kb : b.text \in ActiveCaptions) => out[i].status = "active"
    /\ OffersBuyRandomCard(gameState, myCards) => gameState.status = "waiting"

\* C10: once a client has processed the winner event of a game, it sends no
\* claim-bingo request for that game.
ClaimC10 ==
    \A i \in DOMAIN reqs :
        reqs[i].api = "claim-bingo" => reqs[i].gameId \notin winnerGames

IsPrefix(a, b) == Len(a) <= Len(b) /\ SubSeq(b, 1, Len(a)) = a

\* C11: while the room stays with one game, every new value of the client's
\* calledNumbers has the previous value as a prefix: it only grows by appending.
ClaimC11 ==
    [][(room' = room /\ room # NoRoom)
        => IsPrefix(gameState.calledNumbers, gameState'.calledNumbers)]_vars

\* a number_called event that is the next call for the state
InOrder(data, state) ==
    /\ data.currentCalls = Len(state.calledNumbers) + 1
    /\ \A i \in DOMAIN state.calledNumbers : state.calledNumbers[i] # data.number

\* C12: after the client has processed an in-order number_called event, the
\* called number is the last element of its calledNumbers (from which the cards'
\* marking is drawn).
ClaimC12 ==
    [][(op'.name = "numberCalled" /\ gameState # NoGameState /\ InOrder(ev', gameState))
        => gameState'.calledNumbers = Append(gameState.calledNumbers, ev'.number)]_vars

\* a cell counts as marked iff it is the FREE cell or its number has been called
CountsAsMarked(cell, calledNumbers) ==
    cell.free \/ \E i \in DOMAIN calledNumbers : calledNumbers[i] = cell.number

\* C13: the marked count shown for a card is the number of its cells that are
\* FREE or in the game's current calledNumbers, whatever called flags the card
\* snapshot carries.
ClaimC13 ==
    (selectedCard # NoCard /\ gameState # NoGameState)
        => markedShown(selectedCard)
             = Cardinality({cell \in Cells(selectedCard) :
                               CountsAsMarked(cell, gameState.calledNumbers)})

\* C14: immediately after construction the centre cell (row 2, column 2) of a
\* card has free = true and called = true, and no other cell has free = true.
ClaimC14 ==
    op.name = "buildCard" =>
        /\ card.numbers[2][2].free
        /\ card.numbers[2][2].called
        /\ \A row \in 0..4, col \in 0..4 :
               card.numbers[row][col].free => (row = 2 /\ col = 2)

WitnessC14 == op.name = "buildCard" /\ card.number = 400

\* the twelve patterns, and what it is for one to be all called on `card`
AllPatterns ==
    {Pattern("row", i) : i \in 0..4} \cup {Pattern("column", i) : i \in 0..4}
    \cup {Pattern("diagonal", 0), Pattern("diagonal", 1)}

AllCalled(p) ==
    CASE p.kind = "row" -> \A col \in 0..4 : card.numbers[p.index][col].called
      [] p.kind = "column" -> \A row \in 0..4 : card.numbers[row][p.index].called
      [] p = Pattern("diagonal", 0) -> \A k \in 0..4 : card.numbers[k][k].called
      [] p = Pattern("diagonal", 1) -> \A k \in 0..4 : card.numbers[k][4 - k].called
      [] OTHER -> FALSE

\* C15: a card wins iff one of its 5 rows, 5 columns or 2 diagonals has all five
\* cells called, the FREE cell counting as called; a card just built does not win.
ClaimC15 ==
    card # NoCard =>
        /\ (win # NoWin) <=> (\E p \in AllPatterns : AllCalled(p))
        /\ op.name = "buildCard" => win = NoWin

\* a diagonal, which runs through the FREE cell, is what makes the card win
WitnessC15 ==
    /\ op.name = "applyCalledNumber"
    /\ win.kind = "diagonal"
    /\ ~card.numbers[0][1].called

\* C16: applying a call to a card twice gives the same marking as applying it
\* once, for every card the model reaches and every call.
ClaimC16 ==
    card # NoCard =>
        \A call \in ModelCalls :
            applyCalledNumber(applyCalledNumber(card, call[1], call[2]), call[1], call[2])
                = applyCalledNumber(card, call[1], call[2])

WitnessC16 ==
    /\ op.name = "applyCalledNumber"
    /\ card.numbers[0][0].called
    /\ ~card.numbers[1][0].called

\* the place of a pattern in the fixed order: rows top to bottom, columns left to
\* right, then the diagonal from the top left, then the one from the top right
Rank(p) ==
    CASE p.kind = "row" -> p.index
      [] p.kind = "column" -> 5 + p.index
      [] OTHER -> 10 + p.index

\* C17: the detector reports the complete pattern that comes first in the fixed
\* order, and no win when no pattern is complete.
ClaimC17 ==
    card # NoCard =>
        IF \E p \in AllPatterns : AllCalled(p)
        THEN /\ win \in AllPatterns
             /\ AllCalled(win)
             /\ \A q \in AllPatterns : AllCalled(q) => Rank(win) <= Rank(q)
        ELSE win = NoWin

\* a row, a column and a diagonal are complete at once
WitnessC17 ==
    /\ AllCalled(Pattern("row", 0))
    /\ AllCalled(Pattern("column", 0))
    /\ AllCalled(Pattern("diagonal", 1))
    /\ win = Pattern("row", 0)

\* C18: handlers run one at a time: while the handler of /play is at an await,
\* the next step the bot takes is that handler going on, not another handler.
ClaimC18 ==
    [][playPc # "idle" => (op'.name = "play" /\ op'.chat = playChat)]_vars

\* the user id a handler run for a chat may send: the id of that chat's session
\* (bot.js) or the id made from the chat id (part_000)
SessionUserId(client, chat, sessions) ==
    IF client = "A" THEN getUserId(chat) ELSE sessions[chat]

\* C19: every userId a handler sends to the backend for a chat is the one of
\* that chat's own session, and handling an update for a chat leaves the
\* sessions of all other chats as they were.
ClaimC19 ==
    [][/\ \A c \in Chats : c # op'.chat => userSessions'[c] = userSessions[c]
       /\ \A i \in DOMAIN reqs' :
              reqs'[i].userId # "" =>
                  reqs'[i].userId = SessionUserId(op'.client, op'.chat, userSessions')]_vars

\* chat 1 asks for its balance while chat 2 has the session of another user
WitnessC19 ==
    /\ op = Op("B", "balance", 1)
    /\ userSessions[1] = "u1"
    /\ userSessions[2] = "u2"
    /\ Len(reqs) = 1
    /\ reqs[1].userId = "u1"

ClaimC21 ==
    [][ev'.type \in {"player_joined", "card_sold"} =>
           UNCHANGED <<gameState, myCards, selectedCard, winner, userSessions>>]_vars

\* C21: a card_sold event about this player's own purchase has been handled
\* while numbers were called and cards were held
WitnessC21 ==
    /\ op.name = "cardPurchased"
    /\ ev.type = "card_sold"
    /\ out # <<>>
    /\ gameState # NoGameState
    /\ gameState.calledNumbers # <<>>
    /\ myCards # <<>>

\* C22: when a card button of showCardSelection is pressed (buy_card_<g>_<n>,
\* or buy_card_<g>_random), every buy-card request of the handler goes to game
\* g and carries card number n (null for the random button).
ClaimC22 ==
    (op.client = "A" /\ op.name = "callback_query" /\ StartsWith(ev.data, <<"buy", "card">>)) =>
        \A i \in DOMAIN reqs :
            reqs[i].api = "buy-card" =>
                /\ reqs[i].gameId = ev.data[3]
                /\ reqs[i].cardNumber = IF ev.data[4] = "random" THEN Null
                                        ELSE parseInt(ev.data[4])

\* the requests that carry a userId
UserApis == {"buy-card", "claim-bingo", "get-balance", "get-user-cards",
             "get-user-stats", "get-referral-info"}

\* C23: the userId a handler sends for a chat is the userId the backend returned
\* when that chat registered with /start; stated for the handler that runs for
\* the chat right after its successful /start.
ClaimC23 ==
    [][(/\ op.name = "start"
        /\ reqs # <<>>
        /\ reqs[1].api = "register"
        /\ reqs[1].result = "ok"
        /\ op'.client = op.client
        /\ op'.chat = op.chat
        /\ op'.name # "start") =>
           \A i \in DOMAIN reqs' :
               reqs'[i].api \in UserApis => reqs'[i].userId = ev.userId]_vars

\* C24: when a button of one of the bot's keyboards is pressed and the press is
\* acknowledged, the dispatcher performs that button's action: the press is
\* not dropped (only noop does nothing), it does not end in the dispatcher's
\* error message while every request and send succeeds, and the Deposit menu
\* button is not handled as the deposit of an amount.
ClaimC24 ==
    (op.client = "A" /\ op.name = "callback_query" /\ ev.status = "answered") =>
        /\ ev.data # <<"noop">> => out # <<>>
        /\ ((\A i \in DOMAIN reqs : reqs[i].result = "ok") /\ (\A j \in DOMAIN out : out[j].ok))
               => \A j \in DOMAIN out : out[j].kind # "callback_error"
        /\ ev.data = <<"deposit", "menu">> => \A i \in DOMAIN reqs : reqs[i].api # "deposit"

\* C25: when the game room is left, the cleanup of its effect takes off the
\* listeners the room attached and no other: every listener another component
\* attached (SocketProvider's gameState listener among them) is still attached.
ClaimC25 ==
    [][op'.name = "unmount" =>
           listeners' = {l \in listeners : l.owner # "GameRoom"}]_vars

\* C26: a text message starts at most one command or quick-action handler, and
\* a text that does not start with '/' starts no slash command.
ClaimC26 ==
    (op.client = "A" /\ op.name = "message") =>
        /\ Len(ev.handlers) <= 1
        /\ ~startsWithSlash(ev.words) =>
               \A k \in DOMAIN ev.handlers : ~startsWithSlash(<<ev.handlers[k]>>)

\* C27: the count of available cards a game message shows is 400 minus the
\* cards sold (the backend's available count); it lies in 0..400 and is 0 when
\* every card is sold.
ClaimC27 ==
    op.name = "play" =>
        \A i \in DOMAIN out :
            out[i].kind = "game_info" =>
                /\ out[i].text = ToString(400 - ev.cardsSold)
                /\ out[i].text \in {ToString(n) : n \in 0..400}
                /\ ev.cardsSold = 400 => out[i].text = "0"

\* C28: when the backend lists the players of the game, a broadcast tries one
\* send to each listed player that has a telegramChatId, in the order of the
\* list, whether or not earlier sends failed, and none to the other players.
ClaimC28 ==
    (op.name = "broadcast" /\ reqs # <<>> /\ reqs[1].result = "ok") =>
        /\ [i \in DOMAIN out |-> out[i].to] = SelectSeq(ev.players, LAMBDA c : c # 0)
        /\ \A i \in DOMAIN out : out[i].kind \in {ev.type, "you_won", "opponent_won"}

\* C28: a broadcast over a list of two players with a chat id and one without
\* between them; the first send failed and the second was tried all the same
WitnessC28 ==
    /\ op.name = "broadcast"
    /\ ev.players = <<1, 0, 2>>
    /\ Len(out) = 2
    /\ ~out[1].ok
    /\ out[2].to = 2
    /\ out[2].ok

\* C29: the session-based bot sends no get-balance request for a chat that has
\* no session and tells the user to send /start instead; a chat gets a
\* session only in its own /start handler, when the registration succeeded.
ClaimC29 ==
    [][/\ (op'.client = "B" /\ op'.name = "balance" /\ userSessions[op'.chat] = NoSession) =>
              /\ reqs' = <<>>
              /\ out' # <<>>
              /\ out'[1].kind = "send_start_first"
       /\ \A c \in Chats :
              (userSessions[c] = NoSession /\ userSessions'[c] # NoSession) =>
                  /\ op' = Op("B", "start", c)
                  /\ reqs' # <<>>
                  /\ reqs'[1].api = "register"
                  /\ reqs'[1].result = "ok"]_vars

\* C29: chat 1 asked for its balance before any successful /start of its own,
\* while chat 2 had a session
WitnessC29 ==
    /\ op = Op("B", "balance", 1)
    /\ userSessions[1] = NoSession
    /\ userSessions[2] # NoSession
    /\ reqs = <<>>
    /\ out # <<>>
    /\ out[1].kind = "send_start_first"

\* the events GameRoom emits on the socket itself
RoomEmits == {"joinGame", "claim-bingo"}

\* C30: after a disconnect event, and as long as no connect follows, the client
\* is marked disconnected and whatever it handles emits nothing on the socket;
\* stated for the handler that runs right after the disconnect event.
ClaimC30 ==
    [][(op.client = "W" /\ op.name = "disconnect" /\ op'.name # "connect") =>
           /\ ~isConnected'
           /\ \A i \in DOMAIN reqs' : reqs'[i].api \notin RoomEmits]_vars

====
